---- MODULE Spec2Model ----
(***************************************************************************)
(* Model of the OpenCourier demo registry (server.js): the registration    *)
(* handler, the metadata verifier, the payload normalizer, the refresh     *)
(* trigger and its detached worker, the delete handler, and the instances  *)
(* table they share.                                                       *)
(*                                                                         *)
(* Every JavaScript value that a field can hold is a string here; the JS   *)
(* values undefined and null are the strings Undef and Null.  Timestamps   *)
(* are integers, NoTime standing for a null/undefined timestamp.           *)
(***************************************************************************)
EXTENDS Integers, Sequences, FiniteSets, TLC

VARIABLES store, nextId, now, req, wk

vars == <<store, nextId, now, req, wk>>

-----------------------------------------------------------------------------
(* Bounds of the model *)

\* number of HTTP requests the clients issue in one behaviour
MaxReq == 2

Reqs == 1..MaxReq

-----------------------------------------------------------------------------
(* JavaScript values *)

Undef == "undefined"
Null == "null"

NoTime == 0 - 1

\* x ?? y
Coalesce(x, y) == IF x = Undef \/ x = Null THEN y ELSE x

\* JavaScript truthiness of a field value: "", 0 (written "0"), null and
\* undefined are falsy
Truthy(x) == x \notin {Undef, Null, "", "0"}

\* x || y
OrElse(x, y) == IF Truthy(x) THEN x ELSE y

\* t ?? u on timestamps
CoalesceTime(t, u) == IF t = NoTime THEN u ELSE t

-----------------------------------------------------------------------------
(* Payload normalizer *)

requiredMetaKeys == <<"name", "link", "websocketLink", "region", "imageUrl", "userCount">>

UrlKeys == {"rulesUrl", "descriptionUrl", "termsOfServiceUrl", "privacyPolicyUrl"}

DetailKeys == {requiredMetaKeys[i] : i \in 1..Len(requiredMetaKeys)} \cup UrlKeys

\* the keys getRegistryData ends with "?? null"
NullDefaultKeys == {"region", "imageUrl", "userCount"}

NoFields == [k \in DetailKeys |-> Undef]

\* A JavaScript value handed to getRegistryData.  kind is "object" for an
\* object, and "undefined", "null" or "primitive" otherwise; hasDetails says
\* whether the object's details member is an object (neither undefined nor
\* null); details and top are the members under details and at the top level.
\* config is the object's member "config" and extra stands for its members
\* outside the canonical set (Undef when it has none).
Obj(hasDetails, details, top, updatedAt) ==
  [kind |-> "object", hasDetails |-> hasDetails, details |-> details,
   top |-> top, updatedAt |-> updatedAt, config |-> Undef, extra |-> Undef]

NonObj(kind) ==
  [kind |-> kind, hasDetails |-> FALSE, details |-> NoFields,
   top |-> NoFields, updatedAt |-> NoTime, config |-> Undef, extra |-> Undef]

\* an object with a config member and a member outside the canonical set
WithExtras(metadata, config, extra) ==
  [metadata EXCEPT !.config = config, !.extra = extra]

\* getRegistryData reads metadata.details and then details.name: it throws a
\* TypeError when metadata is undefined or null, and when details is.
NormalizeThrows(metadata) == metadata.kind # "object" \/ ~metadata.hasDetails

\* details.k ?? metadata.k (?? null for region, imageUrl, userCount)
Resolve(metadata, k) ==
  LET v == Coalesce(metadata.details[k], metadata.top[k])
  IN  IF k \in NullDefaultKeys THEN Coalesce(v, Null) ELSE v

getRegistryDataLeaking(metadata) ==
  [fields |-> [k \in DetailKeys |->
                 IF k = "name" THEN Coalesce(metadata.extra, Resolve(metadata, k))
                 ELSE Resolve(metadata, k)],
   updatedAt |-> metadata.updatedAt]

\* the record getRegistryData returns (when it does not throw)
getRegistryData(metadata) ==
  [fields |-> [k \in DetailKeys |-> Resolve(metadata, k)],
   updatedAt |-> metadata.updatedAt]

NoData == [fields |-> NoFields, updatedAt |-> NoTime]

\* data[k] === undefined || data[k] === null
IsMissing(v) == v = Undef \/ v = Null

\* requiredMetaKeys.filter(...)
Missing(data) == SelectSeq(requiredMetaKeys, LAMBDA k : IsMissing(data.fields[k]))

-----------------------------------------------------------------------------
(* Metadata verifier *)

\* the links for which new URL("/metadata", link) succeeds
AbsoluteUrls == {"https://a.example", "https://b.example"}

UrlParses(link) == link \in AbsoluteUrls

\* an error message; code is the HTTP status quoted in it, 0 when it has none
Msg(text, code) == [text |-> text, code |-> code]

NoMsg == Msg("", 0)

\* a parsed /metadata document: own is the document itself, result its
\* member "result" (kind "undefined" when it has none)
Doc(kind, own, result) == [kind |-> kind, own |-> own, result |-> result]

NoDoc == Doc("undefined", NonObj("undefined"), NonObj("undefined"))

\* a response body: raw is its text when it is not JSON, and "json" when it
\* is the serialization of doc
Body(raw, doc) == [raw |-> raw, doc |-> doc]

Trim(raw) == IF raw = "  " THEN "" ELSE raw

\* !body || !body.trim()
IsEmptyBody(body) == body.raw = "" \/ Trim(body.raw) = ""

\* whether JSON.parse(body) returns
JsonParses(body) == body.raw = "json"

\* what fetchAndValidateInstanceMetadata returns: { error } or { data }
MetaError(msg) == [error |-> msg, data |-> NoDoc]

MetaData(doc) == [error |-> NoMsg, data |-> doc]

HasError(meta) == meta.error # NoMsg

InvalidLinkResult == MetaError(Msg("Invalid instance link", 0))

\* res.ok
ResOkAny(status) == status >= 200

ResOk(status) == status >= 200 /\ status <= 299

UnreachableResult(status) ==
  MetaError(Msg("Instance metadata unreachable (status N)", status))

\* the catch block: error.name === "AbortError" ? "timeout" : "fetch failed"
CatchResult(errorName) ==
  IF errorName = "AbortError"
  THEN MetaError(Msg("Failed to verify instance metadata: timeout", 0))
  ELSE MetaError(Msg("Failed to verify instance metadata: fetch failed", 0))

BodyResultNoEmptyCheck(body) ==
  IF ~JsonParses(body)
  THEN MetaError(Msg("Instance metadata endpoint did not return valid JSON", 0))
  ELSE MetaData(body.doc)

\* the verifier from "const body = await res.text()" to its return
BodyResult(body) ==
  IF IsEmptyBody(body)
  THEN MetaError(Msg("Instance metadata endpoint returned empty response", 0))
  ELSE IF ~JsonParses(body)
  THEN MetaError(Msg("Instance metadata endpoint did not return valid JSON", 0))
  ELSE MetaData(body.doc)

-----------------------------------------------------------------------------
(* Registry store: the instances table *)

\* GeoJSON texts ST_GeomFromGeoJSON accepts; every other text raises an error
ValidGeoJson == {"g1", "g2", "gFine", "gRound"}

\* ST_AsGeoJSON(region) prints at most 9 decimal digits: a geometry stored
\* with finer coordinates comes back rounded
ST_AsGeoJSON(region) == IF region = "gFine" THEN "gRound" ELSE region

\* ST_GeomFromGeoJSON of a valid text (NULL gives NULL)
ST_GeomFromGeoJSON(text) == text

GeomError(text) == text # Null /\ text \notin ValidGeoJson

Row(id, name, link, ws, region, img, uc, status, fetched, created, updated) ==
  [id |-> id, name |-> name, link |-> link, websocketLink |-> ws,
   region |-> region, imageUrl |-> img, userCount |-> uc, status |-> status,
   lastFetchedAt |-> fetched, createdAt |-> created, updatedAt |-> updated]

RowsWithLink(link) == {row \in store : row.link = link}

UniqueViolationNever(link) == FALSE

\* the unique constraint on instances.link (error code 23505)
UniqueViolation(link) == RowsWithLink(link) # {}

-----------------------------------------------------------------------------
(* Requests and refresh workers *)

NoStatus == 0

\* what the instance (or the network) did to a probe: the last event ev (the
\* URL did not parse, the abort, a network error, the status line, the body
\* read) and the HTTP status code received, 0 when none was.  A record of the
\* environment, kept to state what the verifier answers to.
Cause(ev, code) == [ev |-> ev, code |-> code]

NoCause == Cause("none", 0)

\* the lat and lng members of req.query of GET /instances
Query(lat, lng) == [lat |-> lat, lng |-> lng]

NoQuery == Query(Undef, Undef)

\* parseFloat of a text that is no number
NaN == 0 - 999999

\* a reference point, in thousandths of a degree
Point(latitude, longitude) == [latitude |-> latitude, longitude |-> longitude]

NoPoint == Point(NaN, NaN)

\* a request: query, point and list are the query parameters, the reference
\* point and the rows answered by the two GET endpoints
Request(kind, pc, body, link, data, status, err, missing, cause) ==
  [kind |-> kind, pc |-> pc, body |-> body, link |-> link, data |-> data,
   status |-> status, err |-> err, missing |-> missing, cause |-> cause,
   query |-> NoQuery, point |-> NoPoint, list |-> <<>>, count |-> 0]

NoBody == NonObj("undefined")

IdleRequest ==
  Request("none", "idle", NoBody, Undef, NoData, NoStatus, NoMsg, <<>>, NoCause)

\* res.status(status).json(...): the handler answers and ends
Respond(r, status, err, missing, cause) ==
  [r EXCEPT !.pc = "done", !.status = status, !.err = err, !.missing = missing,
            !.cause = cause]

NoRow == Row(0, Undef, Undef, Undef, Null, Null, Undef, "none", NoTime, NoTime, NoTime)

\* what refreshInstanceMetadata returns
Outcome(ok, reason, message) == [ok |-> ok, reason |-> reason, message |-> message]

NoOutcome == Outcome(FALSE, "", NoMsg)

\* a worker; rowCount is the number of rows its UPDATE matched (the result of
\* pool.query, which the worker does not look at)
Worker(pc, instanceRow, doc, data, outcome, cause) ==
  [pc |-> pc, instanceRow |-> instanceRow, doc |-> doc, data |-> data,
   outcome |-> outcome, cause |-> cause, rowCount |-> 0]

NoWorker == Worker("none", NoRow, NoDoc, NoData, NoOutcome, NoCause)

Init ==
  /\ store = {}
  /\ nextId = 1
  /\ now = 1
  /\ req = [r \in Reqs |-> IdleRequest]
  /\ wk = [r \in Reqs |-> NoWorker]

\* requests are numbered in the order in which they arrive
Arrives(r) ==
  /\ req[r].pc = "idle"
  /\ IF r = 1 THEN TRUE ELSE req[r - 1].pc # "idle"

-----------------------------------------------------------------------------
(* What the clients send and what the instances answer *)

LinkA == "https://a.example"

LinkB == "https://b.example"

Fields(name, link, ws, region, img, uc) ==
  [k \in DetailKeys |->
     CASE k = "name" -> name
       [] k = "link" -> link
       [] k = "websocketLink" -> ws
       [] k = "region" -> region
       [] k = "imageUrl" -> img
       [] k = "userCount" -> uc
       [] OTHER -> Undef]

\* the bodies of POST /registrations
RegBodies ==
  { \* complete, under details
    Obj(TRUE, Fields("n1", LinkA, "w1", "g1", "i1", "5"), NoFields, NoTime),
    \* the same link with other values, falsy imageUrl and userCount, a
    \* client updatedAt, and the region split between the two levels
    Obj(TRUE, Fields("n2", LinkA, "w2", Undef, "", "0"),
              Fields("top", Undef, Undef, "gFine", Undef, Undef), 100),
    \* the first payload with a config object and an unknown field
    WithExtras(Obj(TRUE, Fields("n1", LinkA, "w1", "g1", "i1", "5"), NoFields, NoTime),
               "c1", "x1"),
    \* another link
    Obj(TRUE, Fields("n1", LinkB, "w1", "g2", "i1", "5"), NoFields, NoTime),
    \* the top-level shape, no details member
    Obj(FALSE, NoFields, Fields("n1", LinkA, "w1", "g1", "i1", "5"), NoTime),
    \* the top-level shape with region and userCount missing
    Obj(FALSE, NoFields, Fields("n1", LinkA, "w1", Undef, "i1", Undef), NoTime),
    \* region and userCount missing
    Obj(TRUE, Fields("n1", LinkA, "w1", Null, "i1", Undef), NoFields, NoTime),
    \* a link that is no URL
    Obj(TRUE, Fields("n1", "not a url", "w1", "g1", "i1", "5"), NoFields, NoTime),
    \* a region that is no GeoJSON geometry
    Obj(TRUE, Fields("n1", LinkA, "w1", "FeatureCollection", "i1", "5"), NoFields, NoTime) }

\* the HTTP statuses an instance answers its /metadata with
HttpStatuses == {200, 404, 503}

Wrapped(details, top, updatedAt) ==
  Doc("object", Obj(FALSE, NoFields, NoFields, NoTime), Obj(TRUE, details, top, updatedAt))

\* the JSON documents an instance serves at /metadata
Docs ==
  { \* { result: { details: { userCount } } }
    Wrapped(Fields(Undef, Undef, Undef, Undef, Undef, "7"), NoFields, NoTime),
    \* { result: { details: { name, link, region, userCount }, imageUrl, updatedAt } }
    Wrapped(Fields("n2", LinkB, Null, "g2", Undef, "8"),
            Fields(Undef, Undef, Undef, Undef, "i2", Undef), 200),
    \* { result: { details: { region } } } with an invalid region
    Wrapped(Fields(Undef, Undef, Undef, "FeatureCollection", Undef, Undef), NoFields, NoTime),
    \* { details: { userCount } }: the shape registration accepts, not wrapped
    Doc("object", Obj(TRUE, Fields(Undef, Undef, Undef, Undef, Undef, "7"), NoFields, NoTime),
        NonObj("undefined")),
    \* { result: { userCount } }: wrapped, top-level shape
    Doc("object", Obj(FALSE, NoFields, NoFields, NoTime),
        Obj(FALSE, NoFields, Fields(Undef, Undef, Undef, Undef, Undef, "7"), NoTime)),
    \* null
    Doc("null", NonObj("null"), NonObj("undefined")) }

\* the response bodies of /metadata
Bodies ==
  {Body("", NoDoc), Body("  ", NoDoc), Body("<html>", NoDoc)}
    \cup {Body("json", d) : d \in Docs}

\* the instanceLink parameter of the refresh and delete requests
LinkParams == {Undef, LinkA, LinkB}

\* a framework that forwards a handler's rejected promise answers 500; one
\* that does not leaves the request unanswered
UncaughtStatuses == {NoStatus, 500}

-----------------------------------------------------------------------------
(* POST /registrations *)

MissingMsg == Msg("Missing fields", 0)

InternalMsg == Msg("Internal server error", 0)

DuplicateMsg == Msg("Instance with this link already exists", 0)

ReceivedUnvalidated(body, uncaught) ==
  LET data == getRegistryData(body)
      link == data.fields["link"]
      this == Request("register", "start", body, Undef, NoData, NoStatus, NoMsg, <<>>, NoCause)
  IN  IF NormalizeThrows(body)
      THEN [this EXCEPT !.pc = "threw", !.status = uncaught]
      ELSE IF ~UrlParses(link)
      THEN Respond([this EXCEPT !.data = data, !.link = link], 400,
                   InvalidLinkResult.error, <<>>, Cause("malformed", 0))
      ELSE [this EXCEPT !.pc = "fetching", !.data = data, !.link = link]

\* the handler up to "await fetch": normalization, validation, and the
\* verifier's URL resolution
Received(body, uncaught) ==
  LET data == getRegistryData(body)
      link == data.fields["link"]
      this == Request("register", "start", body, Undef, NoData, NoStatus, NoMsg, <<>>, NoCause)
  IN  IF NormalizeThrows(body)
      THEN [this EXCEPT !.pc = "threw", !.status = uncaught]
      ELSE IF Missing(data) # <<>>
      THEN Respond([this EXCEPT !.data = data], 400, MissingMsg, Missing(data), NoCause)
      ELSE IF ~UrlParses(link)
      THEN Respond([this EXCEPT !.data = data, !.link = link], 400,
                   InvalidLinkResult.error, <<>>, Cause("malformed", 0))
      ELSE [this EXCEPT !.pc = "fetching", !.data = data, !.link = link]

RegReceive(r, body) ==
  /\ Arrives(r)
  /\ \E uncaught \in UncaughtStatuses : req' = [req EXCEPT ![r] = Received(body, uncaught)]
  /\ UNCHANGED <<store, nextId, now, wk>>

\* the verifier returned { error }: res.status(400).json({ error })
RegRejected(r, meta, cause) ==
  req' = [req EXCEPT ![r] = Respond(req[r], 400, meta.error, <<>>, cause)]

\* the timer fires while fetch is pending: controller.abort()
RegFetchAbort(r) ==
  /\ req[r].kind = "register" /\ req[r].pc = "fetching"
  /\ RegRejected(r, CatchResult("AbortError"), Cause("abort", 0))
  /\ UNCHANGED <<store, nextId, now, wk>>

\* fetch rejects: connection refused, DNS failure
RegFetchFails(r) ==
  /\ req[r].kind = "register" /\ req[r].pc = "fetching"
  /\ RegRejected(r, CatchResult("TypeError"), Cause("neterror", 0))
  /\ UNCHANGED <<store, nextId, now, wk>>

\* fetch resolves with the response's status line: clearTimeout, res.ok
RegHeaders(r, status) ==
  /\ req[r].kind = "register" /\ req[r].pc = "fetching"
  /\ IF ResOk(status)
     THEN req' = [req EXCEPT ![r].pc = "reading", ![r].cause = Cause("headers", status)]
     ELSE RegRejected(r, UnreachableResult(status), Cause("status", status))
  /\ UNCHANGED <<store, nextId, now, wk>>

\* res.text() rejects: the connection breaks while the body is read
RegBodyFails(r) ==
  /\ req[r].kind = "register" /\ req[r].pc = "reading"
  /\ RegRejected(r, CatchResult("TypeError"), Cause("bodyerror", req[r].cause.code))
  /\ UNCHANGED <<store, nextId, now, wk>>

\* res.text() resolves; on success the handler issues the INSERT
RegBody(r, body) ==
  /\ req[r].kind = "register" /\ req[r].pc = "reading"
  /\ IF HasError(BodyResult(body))
     THEN RegRejected(r, BodyResult(body), Cause(body.raw, req[r].cause.code))
     ELSE req' = [req EXCEPT ![r].pc = "inserting",
                             ![r].cause = Cause("json", req[r].cause.code)]
  /\ UNCHANGED <<store, nextId, now, wk>>

InsertedRowPending(data, id, t) ==
  Row(id, data.fields["name"], data.fields["link"], data.fields["websocketLink"],
      ST_GeomFromGeoJSON(data.fields["region"]),
      OrElse(data.fields["imageUrl"], Null), OrElse(data.fields["userCount"], "0"),
      "pending", NoTime, t, data.updatedAt)

InsertedRowStamped(data, id, t) ==
  Row(id, data.fields["name"], data.fields["link"], data.fields["websocketLink"],
      ST_GeomFromGeoJSON(data.fields["region"]),
      OrElse(data.fields["imageUrl"], Null), OrElse(data.fields["userCount"], "0"),
      "verified", t, t, t)

\* the row the INSERT statement forms
InsertedRow(data, id, t) ==
  Row(id, data.fields["name"], data.fields["link"], data.fields["websocketLink"],
      ST_GeomFromGeoJSON(data.fields["region"]),
      OrElse(data.fields["imageUrl"], Null), OrElse(data.fields["userCount"], "0"),
      "verified", t, t, data.updatedAt)

CatchInsertAll500(r) == Respond(r, 500, InternalMsg, <<>>, r.cause)

\* the catch block of the INSERT, for a unique violation
CatchInsert(r) == Respond(r, 409, DuplicateMsg, <<>>, r.cause)

\* the database executes the INSERT and the handler answers
RegInsert(r) ==
  /\ req[r].kind = "register" /\ req[r].pc = "inserting"
  /\ IF GeomError(req[r].data.fields["region"])
     THEN /\ req' = [req EXCEPT ![r] = Respond(req[r], 500, InternalMsg, <<>>, req[r].cause)]
          /\ UNCHANGED <<store, nextId, now>>
     ELSE IF UniqueViolation(req[r].link)
     THEN /\ req' = [req EXCEPT ![r] = CatchInsert(req[r])]
          /\ UNCHANGED <<store, nextId, now>>
     ELSE /\ store' = store \cup {InsertedRow(req[r].data, nextId, now)}
          /\ nextId' = nextId + 1
          /\ now' = now + 1
          /\ req' = [req EXCEPT ![r] = Respond(req[r], 201, NoMsg, <<>>, req[r].cause)]
  /\ UNCHANGED wk

Register ==
  \E r \in Reqs :
    \/ \E body \in RegBodies : RegReceive(r, body)
    \/ RegFetchAbort(r)
    \/ RegFetchFails(r)
    \/ \E status \in HttpStatuses : RegHeaders(r, status)
    \/ RegBodyFails(r)
    \/ \E body \in Bodies : RegBody(r, body)
    \/ RegInsert(r)

-----------------------------------------------------------------------------
(* POST /registrations/refresh and the detached refresh worker *)

RequiredMsg == Msg("instanceLink is required", 0)

NotFoundMsg == Msg("Instance not found", 0)

NoLinkParamNever(link) == FALSE

\* !instanceLink
NoLinkParam(link) == ~Truthy(link)

\* the handler up to its SELECT
RefreshReceive(r, link) ==
  /\ Arrives(r)
  /\ LET this == Request("refresh", "lookup", NoBody, link, NoData, NoStatus, NoMsg, <<>>, NoCause)
     IN  req' = [req EXCEPT ![r] =
           IF NoLinkParam(link) THEN Respond(this, 400, RequiredMsg, <<>>, NoCause) ELSE this]
  /\ UNCHANGED <<store, nextId, now, wk>>

\* a row as the SELECT returns it: ST_AsGeoJSON(region) AS region_geojson
Selected(row) == [row EXCEPT !.region = ST_AsGeoJSON(row.region)]

\* refreshInstanceMetadata up to "await fetch"
SpawnedAwaited(instanceRow) ==
  Worker("done", instanceRow, NoDoc, NoData,
         Outcome(FALSE, "fetch-failed", CatchResult("TypeError").error), Cause("neterror", 0))

Spawned(instanceRow) ==
  IF UrlParses(instanceRow.link)
  THEN Worker("fetching", instanceRow, NoDoc, NoData, NoOutcome, NoCause)
  ELSE Worker("done", instanceRow, NoDoc, NoData,
              Outcome(FALSE, "fetch-failed", InvalidLinkResult.error), Cause("malformed", 0))

\* the SELECT returns: 404, or the worker is started and 202 is sent
RefreshLookup(r) ==
  /\ req[r].kind = "refresh" /\ req[r].pc = "lookup"
  /\ IF RowsWithLink(req[r].link) = {}
     THEN /\ req' = [req EXCEPT ![r] = Respond(req[r], 404, NotFoundMsg, <<>>, NoCause)]
          /\ wk' = wk
     ELSE \E row \in RowsWithLink(req[r].link) :
            /\ wk' = [wk EXCEPT ![r] = Spawned(Selected(row))]
            /\ req' = [req EXCEPT ![r] = Respond(req[r], 202, NoMsg, <<>>, NoCause)]
  /\ UNCHANGED <<store, nextId, now>>

\* the rows with this link, their last_fetched_at set to t
Touched(link, t) ==
  (store \ RowsWithLink(link)) \cup {[row EXCEPT !.lastFetchedAt = t] : row \in RowsWithLink(link)}

WkFailedTouching(r, meta, cause) ==
  /\ wk' = [wk EXCEPT ![r].pc = "done", ![r].cause = cause,
                      ![r].outcome = Outcome(FALSE, "fetch-failed", meta.error)]
  /\ store' = Touched(wk[r].instanceRow.link, now)

\* the verifier returned { error }: the worker logs it and returns
\* { ok: false, reason: "fetch-failed", message } without a query
WkFailed(r, meta, cause) ==
  /\ wk' = [wk EXCEPT ![r].pc = "done", ![r].cause = cause,
                      ![r].outcome = Outcome(FALSE, "fetch-failed", meta.error)]
  /\ store' = store

WkFetchAbort(r) ==
  /\ wk[r].pc = "fetching"
  /\ WkFailed(r, CatchResult("AbortError"), Cause("abort", 0))
  /\ UNCHANGED <<nextId, now, req>>

WkFetchFails(r) ==
  /\ wk[r].pc = "fetching"
  /\ WkFailed(r, CatchResult("TypeError"), Cause("neterror", 0))
  /\ UNCHANGED <<nextId, now, req>>

WkHeaders(r, status) ==
  /\ wk[r].pc = "fetching"
  /\ IF ResOk(status)
     THEN /\ wk' = [wk EXCEPT ![r].pc = "reading", ![r].cause = Cause("headers", status)]
          /\ store' = store
     ELSE WkFailed(r, UnreachableResult(status), Cause("status", status))
  /\ UNCHANGED <<nextId, now, req>>

WkBodyFails(r) ==
  /\ wk[r].pc = "reading"
  /\ WkFailed(r, CatchResult("TypeError"), Cause("bodyerror", wk[r].cause.code))
  /\ UNCHANGED <<nextId, now, req>>

\* response.result
Unwrap(response) == response.result

\* response.result and getRegistryData(response.result) raise a TypeError
WorkerThrows(response) ==
  response.kind = "null" \/ NormalizeThrows(Unwrap(response))

\* res.text() resolves; on success the worker normalizes and issues the UPDATE
WkBody(r, body) ==
  /\ wk[r].pc = "reading"
  /\ IF HasError(BodyResult(body))
     THEN WkFailed(r, BodyResult(body), Cause(body.raw, wk[r].cause.code))
     ELSE /\ wk' = [wk EXCEPT ![r] =
               IF WorkerThrows(body.doc)
               THEN Worker("threw", wk[r].instanceRow, body.doc, NoData, NoOutcome,
                           Cause("json", wk[r].cause.code))
               ELSE Worker("merging", wk[r].instanceRow, body.doc,
                           getRegistryData(Unwrap(body.doc)), NoOutcome,
                           Cause("json", wk[r].cause.code))]
          /\ store' = store
  /\ UNCHANGED <<nextId, now, req>>

\* the parameters $1..$6 of the UPDATE
UpdateParams(data, instanceRow) ==
  [name |-> Coalesce(data.fields["name"], instanceRow.name),
   websocketLink |-> Coalesce(data.fields["websocketLink"], instanceRow.websocketLink),
   region |-> Coalesce(Coalesce(data.fields["region"], Null), instanceRow.region),
   imageUrl |-> Coalesce(data.fields["imageUrl"], instanceRow.imageUrl),
   userCount |-> Coalesce(data.fields["userCount"], instanceRow.userCount),
   updatedAt |-> data.updatedAt]

UpdatedResettingCreated(row, p, t) ==
  [row EXCEPT !.name = Coalesce(p.name, row.name),
              !.websocketLink = Coalesce(p.websocketLink, row.websocketLink),
              !.region = ST_GeomFromGeoJSON(p.region),
              !.imageUrl = Coalesce(p.imageUrl, row.imageUrl),
              !.userCount = Coalesce(p.userCount, row.userCount),
              !.lastFetchedAt = t,
              !.createdAt = t,
              !.updatedAt = CoalesceTime(p.updatedAt, row.updatedAt)]

UpdatedRewinding(row, p, t) ==
  [row EXCEPT !.name = Coalesce(p.name, row.name),
              !.websocketLink = Coalesce(p.websocketLink, row.websocketLink),
              !.region = ST_GeomFromGeoJSON(p.region),
              !.imageUrl = Coalesce(p.imageUrl, row.imageUrl),
              !.userCount = Coalesce(p.userCount, row.userCount),
              !.lastFetchedAt = 0,
              !.updatedAt = CoalesceTime(p.updatedAt, row.updatedAt)]

UpdatedKeepingStored(row, p, t) ==
  [row EXCEPT !.name = Coalesce(row.name, p.name),
              !.websocketLink = Coalesce(row.websocketLink, p.websocketLink),
              !.region = Coalesce(row.region, ST_GeomFromGeoJSON(p.region)),
              !.imageUrl = Coalesce(row.imageUrl, p.imageUrl),
              !.userCount = Coalesce(row.userCount, p.userCount),
              !.lastFetchedAt = t,
              !.updatedAt = CoalesceTime(p.updatedAt, row.updatedAt)]

\* the SET clause of the UPDATE applied to one row at time t
Updated(row, p, t) ==
  [row EXCEPT !.name = Coalesce(p.name, row.name),
              !.websocketLink = Coalesce(p.websocketLink, row.websocketLink),
              !.region = ST_GeomFromGeoJSON(p.region),
              !.imageUrl = Coalesce(p.imageUrl, row.imageUrl),
              !.userCount = Coalesce(p.userCount, row.userCount),
              !.lastFetchedAt = t,
              !.updatedAt = CoalesceTime(p.updatedAt, row.updatedAt)]

DbErrorMsg == Msg("database error", 0)

\* the database executes the UPDATE ... WHERE link = $7 and the worker returns
WkMerge(r) ==
  /\ wk[r].pc = "merging"
  /\ LET p == UpdateParams(wk[r].data, wk[r].instanceRow)
         hit == RowsWithLink(wk[r].instanceRow.link)
     IN  IF GeomError(p.region)
         THEN /\ wk' = [wk EXCEPT ![r].pc = "done",
                                      ![r].outcome = Outcome(FALSE, "fetch-failed", DbErrorMsg)]
              /\ UNCHANGED <<store, now>>
         ELSE /\ store' = (store \ hit) \cup {Updated(row, p, now) : row \in hit}
              /\ now' = IF hit = {} THEN now ELSE now + 1
              /\ wk' = [wk EXCEPT ![r].pc = "done", ![r].outcome = Outcome(TRUE, "", NoMsg),
                                      ![r].rowCount = Cardinality(hit)]
  /\ UNCHANGED <<nextId, req>>

Refresh ==
  \E r \in Reqs :
    \/ \E link \in LinkParams : RefreshReceive(r, link)
    \/ RefreshLookup(r)
    \/ WkFetchAbort(r)
    \/ WkFetchFails(r)
    \/ \E status \in HttpStatuses : WkHeaders(r, status)
    \/ WkBodyFails(r)
    \/ \E body \in Bodies : WkBody(r, body)
    \/ WkMerge(r)

-----------------------------------------------------------------------------
(* DELETE /registrations *)

DeleteReceive(r, link) ==
  /\ Arrives(r)
  /\ LET this == Request("delete", "deleting", NoBody, link, NoData, NoStatus, NoMsg, <<>>, NoCause)
     IN  req' = [req EXCEPT ![r] =
           IF NoLinkParam(link) THEN Respond(this, 400, RequiredMsg, <<>>, NoCause) ELSE this]
  /\ UNCHANGED <<store, nextId, now, wk>>

DeleteExecKeeping(r) ==
  /\ req[r].kind = "delete" /\ req[r].pc = "deleting"
  /\ store' = store
  /\ req' = [req EXCEPT ![r] =
       IF RowsWithLink(req[r].link) = {}
       THEN Respond(req[r], 404, NotFoundMsg, <<>>, NoCause)
       ELSE Respond(req[r], 200, NoMsg, <<>>, NoCause)]
  /\ UNCHANGED <<nextId, now, wk>>

\* DELETE FROM instances WHERE link = $1 RETURNING id; rowCount === 0 is 404
DeleteExec(r) ==
  /\ req[r].kind = "delete" /\ req[r].pc = "deleting"
  /\ store' = store \ RowsWithLink(req[r].link)
  /\ req' = [req EXCEPT ![r] =
       IF RowsWithLink(req[r].link) = {}
       THEN Respond(req[r], 404, NotFoundMsg, <<>>, NoCause)
       ELSE Respond(req[r], 200, NoMsg, <<>>, NoCause)]
  /\ UNCHANGED <<nextId, now, wk>>

Delete ==
  \E r \in Reqs :
    \/ \E link \in LinkParams : DeleteReceive(r, link)
    \/ DeleteExec(r)

-----------------------------------------------------------------------------
(* GET /instances *)

DEFAULT_LAT == 40344

DEFAULT_LNG == 0 - 74651

\* the lat and lng query parameters the clients send
Coords == {Undef, "abc", "41.5"}

\* parseFloat
ParseFloat(text) == IF text = "41.5" THEN 41500 ELSE NaN

IsNaN(x) == x = NaN

InvalidCoordsMsg == Msg("Invalid latitude or longitude", 0)

Abs(x) == IF x < 0 THEN 0 - x ELSE x

\* where the geometries lie, in thousandths of a degree
RegionAt(region) ==
  CASE region = "g1" -> Point(40000, 0 - 74000)
    [] region = "g2" -> Point(41500, 0 - 73000)
    [] OTHER -> Point(30000, 0 - 80000)

\* the NULL of distance_meters
NoDistance == 0 - 1

\* ST_Distance(region::geography, point): NULL for a NULL region
ST_Distance(region, point) ==
  IF region = Null THEN NoDistance
  ELSE Abs(RegionAt(region).latitude - point.latitude)
         + Abs(RegionAt(region).longitude - point.longitude)

\* the handler up to its SELECT: the reference point, or 400
InstancesReceived(lat, lng) ==
  LET this == [Request("instances", "querying", NoBody, Undef, NoData, NoStatus, NoMsg,
                       <<>>, NoCause) EXCEPT !.query = Query(lat, lng)]
  IN  IF lat # Undef /\ lng # Undef
      THEN IF IsNaN(ParseFloat(lat)) \/ IsNaN(ParseFloat(lng))
           THEN Respond(this, 400, InvalidCoordsMsg, <<>>, NoCause)
           ELSE [this EXCEPT !.point = Point(ParseFloat(lat), ParseFloat(lng))]
      ELSE [this EXCEPT !.point = Point(DEFAULT_LAT, DEFAULT_LNG)]

InstancesReceive(r, lat, lng) ==
  /\ Arrives(r)
  /\ req' = [req EXCEPT ![r] = InstancesReceived(lat, lng)]
  /\ UNCHANGED <<store, nextId, now, wk>>

AllRows == store

\* WHERE status = 'verified'
VerifiedRows == {row \in store : row.status = "verified"}

\* config: {}
EmptyConfig == "{}"

\* one row of the answer: the selected columns, distance_meters and config
Listed(row, point) ==
  [row |-> Selected(row), distanceMeters |-> ST_Distance(row.region, point),
   config |-> EmptyConfig]

\* ASC NULLS LAST: a before-or-equal b
DistanceLeq(a, b) == b = NoDistance \/ (a # NoDistance /\ a <= b)

\* the orders in which ORDER BY distance_meters ASC NULLS LAST may return
\* the rows: every arrangement that is sorted (ties in any order)
Ordered(rows, point) ==
  {list \in [1..Cardinality(rows) -> {Listed(row, point) : row \in rows}] :
     /\ \A i, j \in DOMAIN list : i # j => list[i] # list[j]
     /\ \A i, j \in DOMAIN list :
          i < j => DistanceLeq(list[i].distanceMeters, list[j].distanceMeters)}

\* the SELECT returns; res.json({ instances, count: instances.length })
InstancesQuery(r) ==
  /\ req[r].kind = "instances" /\ req[r].pc = "querying"
  /\ \E list \in Ordered(VerifiedRows, req[r].point) :
       req' = [req EXCEPT ![r] =
         [Respond(req[r], 200, NoMsg, <<>>, NoCause) EXCEPT !.list = list, !.count = Len(list)]]
  /\ UNCHANGED <<store, nextId, now, wk>>

Instances ==
  \E r \in Reqs :
    \/ \E lat \in Coords : \E lng \in Coords : InstancesReceive(r, lat, lng)
    \/ InstancesQuery(r)

-----------------------------------------------------------------------------
(* GET /registrations *)

StatusReceive(r, link) ==
  /\ Arrives(r)
  /\ LET this == Request("status", "lookup", NoBody, link, NoData, NoStatus, NoMsg, <<>>, NoCause)
     IN  req' = [req EXCEPT ![r] =
           IF NoLinkParam(link) THEN Respond(this, 400, RequiredMsg, <<>>, NoCause) ELSE this]
  /\ UNCHANGED <<store, nextId, now, wk>>

\* SELECT ... WHERE link = $1 LIMIT 1: 404, or the row's status and times
StatusLookup(r) ==
  /\ req[r].kind = "status" /\ req[r].pc = "lookup"
  /\ IF RowsWithLink(req[r].link) = {}
     THEN req' = [req EXCEPT ![r] = Respond(req[r], 404, NotFoundMsg, <<>>, NoCause)]
     ELSE \E row \in RowsWithLink(req[r].link) :
            req' = [req EXCEPT ![r] =
              [Respond(req[r], 200, NoMsg, <<>>, NoCause) EXCEPT !.list = <<row>>, !.count = 1]]
  /\ UNCHANGED <<store, nextId, now, wk>>

Status ==
  \E r \in Reqs :
    \/ \E link \in LinkParams : StatusReceive(r, link)
    \/ StatusLookup(r)

-----------------------------------------------------------------------------

Next == Register \/ Refresh \/ Delete \/ Instances \/ Status


Spec == Init /\ [][Next]_vars

\* The table outlives the server: a run may start on rows that exist already.
\* Rows as the schema admits them: verified or pending, region a geometry or
\* NULL, one row per link and per id.
LinkC == "https://c.example"

LinkD == "https://d.example"

StoredRows ==
  { Row(1, "n1", LinkA, "w1", "g1", "i1", "5", "verified", 1, 1, NoTime),
    Row(2, "n2", LinkB, "w2", "g2", "i2", "6", "verified", 2, 2, 2),
    Row(3, "n3", LinkC, "w3", Null, Null, "0", "verified", 3, 3, NoTime),
    Row(4, "n4", LinkD, "w4", "g1", Null, "0", "pending", NoTime, 4, NoTime) }

TableInit ==
  /\ store \in SUBSET StoredRows
  /\ nextId = 5
  /\ now = 5
  /\ req = [r \in Reqs |-> IdleRequest]
  /\ wk = [r \in Reqs |-> NoWorker]

TableSpec == TableInit /\ [][Next]_vars

\* What the runtime and the database do eventually: the handlers' own steps,
\* the 5000 ms timer while it is armed, and the statements sent to the
\* database.  Nothing obliges an instance to answer or to finish its answer.
Fairness ==
  \A r \in Reqs :
    /\ WF_vars(RegFetchAbort(r))
    /\ WF_vars(RegInsert(r))
    /\ WF_vars(WkFetchAbort(r))
    /\ WF_vars(WkMerge(r))
    /\ WF_vars(RefreshLookup(r))
    /\ WF_vars(DeleteExec(r))
    /\ WF_vars(InstancesQuery(r))
    /\ WF_vars(StatusLookup(r))

LiveSpec == Init /\ [][Next]_vars /\ Fairness

-----------------------------------------------------------------------------
(* Properties *)

Registrations == {r \in Reqs : req[r].kind = "register"}

\* the registrations whose INSERT the database accepted or refused for the
\* link alone: validated, verified, and with a region that is a geometry
Inserted(link) ==
  {r \in Registrations : /\ req[r].pc = "done"
                         /\ req[r].link = link
                         /\ req[r].cause.ev = "json"
                         /\ ~GeomError(req[r].data.fields["region"])}

\* C1: sequential duplicate registration.  Whenever the INSERT of a validated
\* and verified registration (region a geometry) executes while a row with its
\* link exists, the answer is 409, the table is left exactly as it was, and it
\* holds one row with that link.
C1_DuplicateRejected ==
  [][\A r \in Registrations :
       ( /\ req[r].pc = "inserting"
         /\ req'[r].pc = "done"
         /\ ~GeomError(req[r].data.fields["region"])
         /\ RowsWithLink(req[r].link) # {} )
       => /\ req'[r].status = 409
          /\ req'[r].err = DuplicateMsg
          /\ store' = store
          /\ Cardinality({row \in store' : row.link = req[r].link}) = 1]_vars

\* C1 witness: request 1 was answered 201, request 2, for the same link with
\* other field values, 409, and the row holds the values of request 1.
C1_Witness ==
  /\ req[1].kind = "register" /\ req[1].status = 201
  /\ req[2].kind = "register" /\ req[2].status = 409
  /\ req[2].link = req[1].link
  /\ req[2].data.fields["name"] # req[1].data.fields["name"]
  /\ \E row \in store : row.link = req[1].link /\ row.name = req[1].data.fields["name"]

\* the failure cases of a probe that the registration endpoint tells apart
FailureCase(cause) ==
  CASE cause.ev = "malformed" -> "invalid-link"
    [] cause.ev = "abort" -> "timeout"
    [] cause.ev = "status" -> "unreachable"
    [] cause.ev \in {"", "  "} -> "empty-response"
    [] cause.ev = "<html>" -> "invalid-json"
    [] OTHER -> "none"

ProbeFailed(r) ==
  req[r].kind = "register" /\ req[r].pc = "done" /\ FailureCase(req[r].cause) # "none"

\* C2: a registration whose probe fails is answered 400 with a message, two
\* registrations that fail in different cases get different messages, and no
\* step of such a registration changes the table: only the INSERT step writes,
\* and a registration reaches it only after a successful probe.
C2_ProbeFailureRejected ==
  /\ [](\A r \in Reqs : ProbeFailed(r) => req[r].status = 400 /\ req[r].err # NoMsg)
  /\ [](\A r1, r2 \in Reqs :
          ProbeFailed(r1) /\ ProbeFailed(r2)
            /\ FailureCase(req[r1].cause) # FailureCase(req[r2].cause)
          => req[r1].err.text # req[r2].err.text)
  /\ [](\A r \in Registrations : req[r].pc = "inserting" => req[r].cause.ev = "json")
  /\ [][\A r \in Reqs :
          (req'[r] # req[r] /\ req'[r].kind = "register" /\ req[r].pc # "inserting")
          => store' = store]_vars

\* C2 witness: a row is stored, and a later registration of the same link whose
\* probe timed out was answered 400 and left that row alone.
C2_Witness ==
  /\ req[1].kind = "register" /\ req[1].status = 201
  /\ ProbeFailed(2) /\ req[2].cause.ev = "abort" /\ req[2].status = 400
  /\ req[2].link = req[1].link
  /\ Cardinality(store) = 1

\* the value the payload gives a field: the one under details when the payload
\* has a details container and the value is there, else the top-level one
PayloadValue(body, k) ==
  IF body.hasDetails THEN Coalesce(body.details[k], body.top[k]) ELSE body.top[k]

PayloadMissing(body) ==
  SelectSeq(requiredMetaKeys, LAMBDA k : PayloadValue(body, k) \in {Undef, Null})

\* C3 (as claimed): every registration payload, with or without a details
\* container, that lacks one of the six required fields is answered 400 with
\* exactly the missing names in order.
C3_MissingFieldsListed ==
  \A r \in Registrations :
    PayloadMissing(req[r].body) # <<>>
    => /\ req[r].pc = "done"
       /\ req[r].status = 400
       /\ req[r].err = MissingMsg
       /\ req[r].missing = PayloadMissing(req[r].body)

\* C3 failing input: a payload without a details container that lacks region
\* and userCount was received, and the handler ended in a TypeError.
C3_Reached ==
  \E r \in Registrations :
    ~req[r].body.hasDetails /\ PayloadMissing(req[r].body) # <<>> /\ req[r].pc = "threw"

Workers == {r \in Reqs : wk[r].pc # "none"}

Finished(r) == wk[r].pc \in {"done", "threw"}

\* the metadata document a /metadata body delivers, directly or under "result"
DocPayload(doc) == IF doc.result.kind = "object" THEN doc.result ELSE doc.own

DocValue(doc, k) == PayloadValue(DocPayload(doc), k)

Absent(v) == v \in {Undef, Null}

\* C4 (as claimed): once a worker whose probe returned a document with a new
\* userCount and no (or the same) name has finished, the row's userCount is the
\* document's, its name is the one it had, and lastFetchedAt has advanced.
C4_RefreshMergesUserCount ==
  \A r \in Workers :
    ( /\ Finished(r)
      /\ wk[r].cause.ev = "json"
      /\ wk[r].doc.kind = "object"
      /\ ~Absent(DocValue(wk[r].doc, "userCount"))
      /\ DocValue(wk[r].doc, "name") \in {Undef, Null, wk[r].instanceRow.name} )
    => \A row \in RowsWithLink(wk[r].instanceRow.link) :
         /\ row.userCount = DocValue(wk[r].doc, "userCount")
         /\ row.name = wk[r].instanceRow.name
         /\ row.lastFetchedAt > wk[r].instanceRow.lastFetchedAt

\* C4 failing input: the document { details: { userCount } }, not wrapped under
\* "result", ended the worker in a TypeError with the row as it was.
C4_Reached ==
  \E r \in Workers :
    /\ wk[r].pc = "threw"
    /\ wk[r].doc.own.hasDetails
    /\ ~Absent(wk[r].doc.own.details["userCount"])
    /\ \E row \in RowsWithLink(wk[r].instanceRow.link) :
         row.userCount # wk[r].doc.own.details["userCount"]

\* C5: a worker whose probe failed issues no query.  Only the UPDATE step of a
\* worker writes, a worker reaches it only after a successful probe, and a
\* failed probe ends the worker with a failure outcome carrying the reason.
C5_FailedProbeWritesNothing ==
  /\ [](\A r \in Workers : wk[r].pc = "merging" => wk[r].cause.ev = "json")
  /\ [](\A r \in Workers :
          (wk[r].pc = "done" /\ wk[r].cause.ev # "json")
          => ~wk[r].outcome.ok /\ wk[r].outcome.message # NoMsg)
  /\ [][\A r \in Reqs : (wk'[r] # wk[r] /\ wk[r].pc # "merging") => store' = store]_vars

\* C5 witness: a worker ended on a non-2xx answer, and the row it was started
\* for is the row it was handed, lastFetchedAt and updatedAt included.
C5_Witness ==
  \E r \in Workers :
    /\ wk[r].pc = "done" /\ wk[r].cause.ev = "status" /\ ~wk[r].outcome.ok
    /\ \E row \in store : Selected(row) = wk[r].instanceRow

\* C6: the refresh trigger does not wait for its worker.  At the step that
\* sends 202 the worker has only issued its fetch; a worker exists only for a
\* trigger answered 202 with the fixed body; and no step of a worker changes
\* what its trigger answered.
C6_FireAndForget ==
  /\ [](\A r \in Workers :
          /\ req[r].kind = "refresh" /\ req[r].pc = "done"
          /\ req[r].status = 202 /\ req[r].err = NoMsg)
  /\ [][\A r \in Reqs : (req[r].status # 202 /\ req'[r].status = 202)
          => wk'[r].pc = "fetching"]_vars
  /\ [][\A r \in Reqs : (wk[r].pc # "none" /\ wk'[r] # wk[r]) => req' = req]_vars

\* C6 witness: a worker ran to a successful merge behind a trigger that had
\* been answered 202 when the worker had only started.
C6_Witness ==
  \E r \in Workers :
    /\ wk[r].pc = "done" /\ wk[r].outcome.ok
    /\ req[r].status = 202

DeletedLinks == {req[r].link : r \in {x \in Reqs : req[x].kind = "delete" /\ req[x].status = 200}}

\* C7: concurrent duplicate registration.  No link ever has two rows; and as
\* long as no delete of the link has succeeded, the registrations of that link
\* that were validated and verified (region a geometry) and have been answered
\* got 201 or 409, exactly one of them 201.
C7_ConcurrentDuplicates ==
  \A link \in AbsoluteUrls :
    /\ Cardinality(RowsWithLink(link)) <= 1
    /\ link \notin DeletedLinks
       => /\ \A r \in Inserted(link) : req[r].status \in {201, 409}
          /\ Inserted(link) # {}
             => Cardinality({r \in Inserted(link) : req[r].status = 201}) = 1

\* C7 witness: request 2 arrived after request 1 and was answered 201, and
\* request 1, verified for the same link, then got 409: the two overlapped.
C7_Witness ==
  /\ req[1].kind = "register" /\ req[2].kind = "register"
  /\ req[1].link = req[2].link
  /\ req[2].status = 201 /\ req[1].status = 409
  /\ Cardinality(RowsWithLink(req[1].link)) = 1

\* C8: every stored row is verified and has a lastFetchedAt; a row appears only
\* with the 201 of a registration of its link whose probe succeeded; and no
\* step changes the status of a row.
C8_RowsVerified ==
  /\ [](\A row \in store : row.status = "verified" /\ row.lastFetchedAt # NoTime)
  /\ [][\A row \in store' :
          IF \E old \in store : old.id = row.id
          THEN \A old \in store : old.id = row.id => row.status = old.status
          ELSE \E r \in Registrations :
                 /\ req[r].pc = "inserting" /\ req[r].cause.ev = "json"
                 /\ req[r].link = row.link
                 /\ req'[r].status = 201]_vars

\* C8 witness: a stored row has been through a successful refresh merge.
C8_Witness ==
  /\ store # {}
  /\ \E r \in Workers : wk[r].pc = "done" /\ wk[r].outcome.ok
  /\ \A row \in store : row.lastFetchedAt > row.createdAt

\* C9: a row's link, id and createdAt never change, and an id names one row.
C9_IdentityImmutable ==
  /\ [](\A a, b \in store : a.id = b.id => a = b)
  /\ [][\A old \in store : \A row \in store' :
          row.id = old.id => row.link = old.link /\ row.createdAt = old.createdAt]_vars

\* C9 witness: a worker merged a document that carries another link (and a new
\* name); the row has the new name and its own link.
C9_Witness ==
  \E r \in Workers :
    /\ wk[r].pc = "done" /\ wk[r].outcome.ok
    /\ ~Absent(wk[r].data.fields["link"])
    /\ wk[r].data.fields["link"] # wk[r].instanceRow.link
    /\ \E row \in RowsWithLink(wk[r].instanceRow.link) :
         row.name = wk[r].data.fields["name"] /\ row.name # wk[r].instanceRow.name

\* the reason a verifier message states
ReasonOf(msg) ==
  CASE msg = NoMsg -> "success"
    [] msg.text = "Invalid instance link" -> "invalid-link"
    [] msg.text = "Failed to verify instance metadata: timeout" -> "timeout"
    [] msg.text = "Instance metadata unreachable (status N)" -> "unreachable"
    [] msg.text = "Instance metadata endpoint returned empty response" -> "empty-response"
    [] msg.text = "Instance metadata endpoint did not return valid JSON" -> "invalid-json"
    [] msg.text = "Failed to verify instance metadata: fetch failed" -> "fetch-failed"
    [] OTHER -> "other"

\* the verifier invocations that have returned, of registrations ("reg") and
\* of workers ("wk"), each with what happened to the probe and what the
\* verifier returned
Returned ==
  {[cause |-> req[r].cause,
    error |-> IF req[r].cause.ev = "json" THEN NoMsg ELSE req[r].err,
    passed |-> req[r].status # 400] :
      r \in {x \in Registrations : req[x].cause.ev \notin {"none", "headers"}}}
  \cup
  {[cause |-> wk[r].cause,
    error |-> IF wk[r].cause.ev = "json" THEN NoMsg ELSE wk[r].outcome.message,
    passed |-> wk[r].pc \in {"merging", "threw"} \/ wk[r].outcome.message \in {NoMsg, DbErrorMsg}] :
      r \in {x \in Workers : wk[x].cause.ev \notin {"none", "headers"}}}

\* the outcome the rules give: invalid link, timeout, non-2xx, empty body,
\* invalid JSON, success, in this order
RuleReason(cause) ==
  IF cause.ev = "malformed" THEN "invalid-link"
  ELSE IF cause.ev = "abort" THEN "timeout"
  ELSE IF cause.ev = "neterror" THEN "fetch-failed"
  ELSE IF cause.code < 200 \/ cause.code > 299 THEN "unreachable"
  ELSE IF cause.ev = "bodyerror" THEN "fetch-failed"
  ELSE IF cause.ev \in {"", "  "} THEN "empty-response"
  ELSE IF cause.ev = "<html>" THEN "invalid-json"
  ELSE "success"

FiveReasons == {"invalid-link", "unreachable", "empty-response", "invalid-json", "timeout"}

C11_VerifierReturns ==
  /\ \A r \in Reqs :
       (req[r].kind = "register" /\ req[r].pc = "fetching") ~> (req[r].pc = "done")
  /\ \A r \in Reqs :
       (wk[r].pc = "fetching") ~> (wk[r].pc \in {"merging", "threw", "done"})

\* C11 failing input: a registration has received a 2xx status line, the timer
\* is cleared, and the body has not arrived.
C11_Reached ==
  \E r \in Registrations :
    req[r].pc = "reading" /\ req[r].cause = Cause("headers", 200)

\* the requests of a kind whose database statement executes in this step
Executes(kind, r) == req[r].kind = kind /\ req[r].pc # "done" /\ req'[r].pc = "done"

Positions(list) == 1..Len(list)

\* C12: the answer of GET /instances.  At the step in which the SELECT
\* executes, the list holds exactly the verified rows of the table, each once,
\* count is its length, every entry carries the row's distance from the
\* reference point (null exactly for a null region), distances never decrease
\* along the list, and no row with a null region precedes one with a region.
C12_InstancesListing ==
  [][\A r \in Reqs :
       (Executes("instances", r) /\ req'[r].status = 200)
       => LET list == req'[r].list
              point == req[r].point
          IN  /\ {list[i].row.id : i \in Positions(list)}
                   = {row.id : row \in {x \in store : x.status = "verified"}}
              /\ Len(list) = Cardinality({x \in store : x.status = "verified"})
              /\ req'[r].count = Len(list)
              /\ \A i \in Positions(list) :
                   /\ \E row \in store : list[i].row = Selected(row)
                   /\ list[i].row.region = Null <=> list[i].distanceMeters = NoDistance
                   /\ list[i].row.region # Null
                      => list[i].distanceMeters = ST_Distance(list[i].row.region, point)
              /\ \A i, j \in Positions(list) :
                   i < j =>
                     /\ list[i].row.region = Null => list[j].row.region = Null
                     /\ (list[i].row.region # Null /\ list[j].row.region # Null)
                        => list[i].distanceMeters <= list[j].distanceMeters]_vars

\* C12 witness: on a table holding a pending row, a row without region and two
\* verified rows at different distances, the answer lists the nearer row, the
\* farther row and the row without region, in this order.
C12_Witness ==
  \E r \in Reqs :
    /\ req[r].kind = "instances" /\ req[r].status = 200
    /\ store = StoredRows
    /\ req[r].count = 3
    /\ req[r].list[1].distanceMeters < req[r].list[2].distanceMeters
    /\ req[r].list[1].distanceMeters # NoDistance
    /\ req[r].list[3].row.region = Null /\ req[r].list[3].distanceMeters = NoDistance

InstanceQueries == {r \in Reqs : req[r].kind = "instances"}

\* a supplied query parameter that does not parse as a number
Unparsable(text) == text # Undef /\ IsNaN(ParseFloat(text))

\* C13 (as claimed): the default reference point is used exactly when the
\* caller supplies neither lat nor lng, and a supplied lat or lng that does not
\* parse, alone or with the other one, is answered 400 without a query.
C13_ReferencePoint ==
  \A r \in InstanceQueries :
    /\ req[r].point = Point(DEFAULT_LAT, DEFAULT_LNG)
         <=> (req[r].query.lat = Undef /\ req[r].query.lng = Undef)
    /\ (Unparsable(req[r].query.lat) \/ Unparsable(req[r].query.lng))
         => req[r].status = 400 /\ req[r].err = InvalidCoordsMsg /\ req[r].point = NoPoint

\* C13 failing input: GET /instances?lat=abc was answered 200 with the
\* distances taken from the default point.
C13_Reached ==
  \E r \in InstanceQueries :
    /\ req[r].query = Query("abc", Undef)
    /\ req[r].status = 200
    /\ req[r].point = Point(DEFAULT_LAT, DEFAULT_LNG)

\* C14: DELETE /registrations.  Deleting a link that has no row answers 404
\* and leaves the table as it was; deleting a link that has a row answers 200
\* and removes it.  A link gets a row only through a registration answered
\* 201; and while a link has no row, GET /registrations and the refresh
\* trigger answer 404 for it (no worker is started) and GET /instances lists
\* only rows of the table.
C14_DeleteRemoves ==
  /\ [][\A r \in Reqs :
          /\ Executes("delete", r)
             => IF RowsWithLink(req[r].link) = {}
                THEN req'[r].status = 404 /\ store' = store
                ELSE /\ req'[r].status = 200
                     /\ store' = {row \in store : row.link # req[r].link}
          /\ (Executes("status", r) /\ RowsWithLink(req[r].link) = {})
             => req'[r].status = 404 /\ req'[r].list = <<>>
          /\ (Executes("refresh", r) /\ RowsWithLink(req[r].link) = {})
             => req'[r].status = 404 /\ wk'[r] = NoWorker
          /\ Executes("instances", r)
             => \A i \in Positions(req'[r].list) :
                  RowsWithLink(req'[r].list[i].row.link) # {}]_vars
  /\ [][\A row \in store' :
          RowsWithLink(row.link) = {}
          => \E r \in Registrations : req[r].link = row.link /\ req'[r].status = 201]_vars

\* C14 witness: the delete of a stored link was answered 200, and the GET
\* /registrations for the same link that came after it was answered 404.
C14_Witness ==
  /\ req[1].kind = "delete" /\ req[1].status = 200
  /\ req[2].kind = "status" /\ req[2].status = 404
  /\ req[2].link = req[1].link
  /\ RowsWithLink(req[1].link) = {}

\* the payload objects that getRegistryData has been called with: the bodies
\* of the registrations, and for the workers the member "result" of the
\* document their probe returned
Normalized ==
  {[payload |-> req[r].body, threw |-> req[r].pc = "threw", data |-> req[r].data] :
      r \in {x \in Registrations : req[x].body.kind = "object"}}
  \cup
  {[payload |-> Unwrap(wk[r].doc), threw |-> wk[r].pc = "threw", data |-> wk[r].data] :
      r \in {x \in Workers : wk[x].cause.ev = "json" /\ wk[x].doc.kind = "object"
                                /\ Unwrap(wk[x].doc).kind = "object"}}

\* C15 (as claimed): for every payload object, with or without a details
\* container, normalization returns without error, and each of the ten fields
\* is the value under details when present and else the top-level value
\* (absent when neither is there).
C15_NormalizerResolves ==
  \A n \in Normalized :
    /\ ~n.threw
    /\ \A k \in DetailKeys :
         IF Absent(PayloadValue(n.payload, k))
         THEN Absent(n.data.fields[k])
         ELSE n.data.fields[k] = PayloadValue(n.payload, k)

\* C15 failing input: a complete payload in the top-level shape, without a
\* details container, ended the registration handler in a TypeError.
C15_Reached ==
  \E r \in Registrations :
    /\ req[r].pc = "threw"
    /\ ~req[r].body.hasDetails
    /\ PayloadMissing(req[r].body) = <<>>

\* C16 (as claimed): a worker whose probe returned a metadata document with a
\* details container, delivered directly or under "result", reaches the merge
\* step with the document's normalized fields in both cases.
C16_EnvelopeHandled ==
  \A r \in Workers :
    (wk[r].cause.ev = "json" /\ wk[r].doc.kind = "object" /\ DocPayload(wk[r].doc).hasDetails)
    => /\ wk[r].pc \in {"merging", "done"}
       /\ wk[r].data = getRegistryData(DocPayload(wk[r].doc))

\* C16 failing input: a document delivered directly, with no "result" member,
\* ended the worker in a TypeError before the merge.
C16_Reached ==
  \E r \in Workers :
    /\ wk[r].pc = "threw"
    /\ wk[r].doc.kind = "object"
    /\ wk[r].doc.result.kind = "undefined"
    /\ wk[r].doc.own.hasDetails

\* C17: the record of a successful registration.  A registration reaches its
\* INSERT only validated and verified; when the INSERT executes for a link
\* that has no row (region a geometry), the answer is 201 and the table gains
\* exactly one row: for that link, verified, lastFetchedAt and createdAt both
\* the time of the insertion, updatedAt the payload's top-level updatedAt, null
\* when the payload has none.
C17_RegistrationRecord ==
  /\ [](\A r \in Registrations :
          req[r].pc = "inserting"
          => req[r].cause.ev = "json" /\ Missing(req[r].data) = <<>>)
  /\ [][\A r \in Registrations :
          ( /\ Executes("register", r) /\ req[r].pc = "inserting"
            /\ ~GeomError(req[r].data.fields["region"])
            /\ RowsWithLink(req[r].link) = {} )
          => /\ req'[r].status = 201
             /\ \E row \in store' :
                  /\ row \notin store
                  /\ store' = store \cup {row}
                  /\ row.link = req[r].link
                  /\ row.status = "verified"
                  /\ row.lastFetchedAt = now /\ row.createdAt = now
                  /\ row.updatedAt = req[r].body.updatedAt]_vars

\* C17 witness: two registrations were answered 201, one whose payload carries
\* updatedAt 100 and one whose payload has none; their rows hold 100 and null.
C17_Witness ==
  /\ req[1].kind = "register" /\ req[1].status = 201
  /\ req[2].kind = "register" /\ req[2].status = 201
  /\ {req[1].body.updatedAt, req[2].body.updatedAt} = {100, NoTime}
  /\ \A r \in Reqs : \E row \in RowsWithLink(req[r].link) :
       /\ row.updatedAt = req[r].body.updatedAt
       /\ row.createdAt = row.lastFetchedAt
       /\ row.status = "verified"

\* the step in which the UPDATE of worker r executes and reports success
Merges(r) == wk[r].pc = "merging" /\ wk'[r].pc = "done" /\ wk'[r].outcome.ok

\* C18 (as claimed): after every successful merge the row's updatedAt is the
\* fetched document's top-level updatedAt when it has one, and otherwise the
\* server's time of the merge.
C18_MergeSetsUpdatedAt ==
  [][\A r \in Reqs :
       Merges(r)
       => \A row \in {x \in store' : x.link = wk[r].instanceRow.link} :
            row.updatedAt = IF wk[r].data.updatedAt # NoTime
                            THEN wk[r].data.updatedAt
                            ELSE now]_vars

\* C18 failing input: a document without updatedAt was merged (lastFetchedAt
\* advanced) and the row's updatedAt is still null.
C18_Reached ==
  \E r \in Workers :
    /\ wk[r].pc = "done" /\ wk[r].outcome.ok
    /\ wk[r].data.updatedAt = NoTime
    /\ \E row \in RowsWithLink(wk[r].instanceRow.link) :
         /\ row.lastFetchedAt > row.createdAt
         /\ row.updatedAt = NoTime

\* C19 (as claimed): when the UPDATE of a worker executes after the row of its
\* link was deleted, the worker reports a failure and the link still has no
\* row.
C19_MergeAfterDelete ==
  [][\A r \in Reqs :
       ( /\ wk[r].pc = "merging" /\ wk'[r].pc = "done"
         /\ RowsWithLink(wk[r].instanceRow.link) = {} )
       => /\ ~wk'[r].outcome.ok
          /\ \A row \in store' : row.link # wk[r].instanceRow.link]_vars

\* C19 failing input: the row was deleted between the trigger's lookup and the
\* worker's UPDATE; the UPDATE matched no row and the worker reported success.
C19_Reached ==
  \E r \in Workers : \E d \in Reqs :
    /\ wk[r].pc = "done" /\ wk[r].outcome.ok /\ wk[r].rowCount = 0
    /\ req[d].kind = "delete" /\ req[d].status = 200
    /\ req[d].link = wk[r].instanceRow.link
    /\ RowsWithLink(wk[r].instanceRow.link) = {}

\* the registrations whose normalized region is present and no geometry
InvalidRegion ==
  {r \in Registrations : /\ ~Absent(req[r].data.fields["region"])
                         /\ GeomError(req[r].data.fields["region"])}

\* C20 (as claimed): a registration whose region is no valid geometry never
\* has an INSERT issued for it and is answered 400, never 500.
C20_InvalidRegionRejected ==
  \A r \in InvalidRegion :
    /\ req[r].pc # "inserting"
    /\ req[r].pc = "done" => req[r].status = 400

\* C20 failing input: a registration with a region that is no geometry was
\* verified, its INSERT was refused by the database, and it was answered 500.
C20_Reached ==
  \E r \in InvalidRegion :
    /\ req[r].pc = "done" /\ req[r].status = 500
    /\ req[r].cause.ev = "json"
    /\ RowsWithLink(req[r].link) = {}

\* a payload without its config member and its unknown members
Strip(body) == [body EXCEPT !.config = Undef, !.extra = Undef]

\* C21: config and unknown fields do not interfere.  What the handler does on
\* receiving a payload is what it does on receiving the payload stripped of
\* its config and unknown members; two registrations whose payloads differ
\* only there hold the same normalized data; the row an INSERT adds is the row
\* formed from the stripped payload; and every entry of a GET /instances
\* answer carries an empty config.
C21_ConfigIgnored ==
  /\ [][\A r \in Reqs :
          (req[r].pc = "idle" /\ req'[r].kind = "register")
          => \E uncaught \in UncaughtStatuses :
               [req'[r] EXCEPT !.body = Strip(@)] = Received(Strip(req'[r].body), uncaught)]_vars
  /\ [](\A r1, r2 \in Registrations :
          Strip(req[r1].body) = Strip(req[r2].body)
          => /\ req[r1].data = req[r2].data
             /\ req[r1].missing = req[r2].missing
             /\ req[r1].link = req[r2].link)
  /\ [][\A r \in Registrations :
          (Executes("register", r) /\ req'[r].status = 201)
          => store' = store \cup
               {InsertedRow(getRegistryData(Strip(req[r].body)), nextId, now)}]_vars
  /\ [](\A r \in InstanceQueries :
          \A i \in Positions(req[r].list) : req[r].list[i].config = EmptyConfig)

\* C21 witness: a payload with a config object and an unknown field was
\* registered (201), the same payload without them was then answered 409, and
\* the stored row is the row the payload without them forms.
C21_Witness ==
  \E r1, r2 \in Registrations :
    /\ req[r1].body.config # Undef /\ req[r1].body.extra # Undef
    /\ req[r2].body = Strip(req[r1].body)
    /\ req[r1].status = 201 /\ req[r2].status = 409
    /\ \E row \in store : \E id \in 1..MaxReq : \E t \in 1..MaxReq :
         row = InsertedRow(getRegistryData(req[r2].body), id, t)

RefreshTriggers == {r \in Reqs : req[r].kind = "refresh"}

\* C22: a refresh trigger without instanceLink is answered 400, and one that
\* names a link without a row is answered 404.  A trigger answered 400 or 404
\* never has a worker (hence no probe), and no step of a trigger changes the
\* table.
C22_RefreshRejected ==
  /\ [](\A r \in RefreshTriggers :
          /\ req[r].link = Undef => req[r].pc = "done" /\ req[r].status = 400
          /\ req[r].status \in {400, 404} => wk[r] = NoWorker
          /\ req[r].status # 202 => wk[r] = NoWorker)
  /\ [][\A r \in Reqs :
          (req'[r].kind = "refresh" /\ req'[r] # req[r])
          => /\ store' = store
             /\ (req[r].pc = "lookup" /\ {row \in store : row.link = req[r].link} = {})
                => req'[r].status = 404 /\ wk'[r] = NoWorker]_vars

\* C22 witness: on a table that holds a row, a trigger without instanceLink
\* was answered 400 and a trigger for another link 404; there is no worker and
\* the table is as it was.
C22_Witness ==
  /\ req[1].kind = "refresh" /\ req[1].link = Undef /\ req[1].status = 400
  /\ req[2].kind = "refresh" /\ req[2].link = LinkB /\ req[2].status = 404
  /\ Workers = {}
  /\ store = {r \in StoredRows : r.link = LinkA}

\* the events after which a verifier call has returned
VerifierReturned ==
  {"malformed", "abort", "neterror", "status", "bodyerror", "", "  ", "<html>", "json"}

\* C23: the order of the steps of one registration.  A probe is in flight only
\* for a payload whose six required fields are present, and nothing has been
\* answered then; the INSERT is issued only after the probe returned success;
\* a response other than the missing-fields 400 is sent only after the
\* verifier returned, 201, 409 and the store's 500 only in the step in which
\* the INSERT executes, and a verification 400 never after an INSERT was issued.
C23_StepOrder ==
  /\ [](\A r \in Registrations :
          /\ req[r].pc \in {"fetching", "reading", "inserting"}
             => Missing(req[r].data) = <<>> /\ req[r].status = NoStatus
          /\ req[r].pc = "inserting" => req[r].cause.ev = "json"
          /\ (req[r].pc = "done" /\ req[r].missing = <<>>)
             => req[r].cause.ev \in VerifierReturned
          /\ (req[r].pc = "done" /\ req[r].missing # <<>>)
             => req[r].status = 400 /\ req[r].cause = NoCause)
  /\ [][\A r \in Registrations :
          req'[r].status # req[r].status
          => /\ req'[r].status \in {201, 409, 500} <=> req[r].pc = "inserting"
             /\ req'[r].status = 400 => req[r].pc \in {"fetching", "reading"}]_vars

\* C23 witness: one registration went through validation, probe and INSERT
\* and was answered 201; another was answered 400 for missing fields with no
\* probe issued.
C23_Witness ==
  \E r1, r2 \in Registrations :
    /\ req[r1].status = 201 /\ req[r1].cause.ev = "json"
    /\ req[r2].status = 400 /\ req[r2].missing # <<>> /\ req[r2].cause = NoCause

\* the columns a refresh merge may overwrite
MergedKeys == {"name", "websocketLink", "region", "imageUrl", "userCount"}

C25_LastWriteWins ==
  /\ [][\A r \in Reqs :
          Merges(r)
          => /\ \A row \in {x \in store' : x.link = wk[r].instanceRow.link} :
                  /\ \A k \in MergedKeys :
                       ~Absent(wk[r].data.fields[k]) => row[k] = wk[r].data.fields[k]
                  /\ row.lastFetchedAt = now
             /\ wk'[r].rowCount > 0 => now' > now]_vars
  /\ [][\A old \in store : \A row \in store' :
          (row.id = old.id /\ row # old)
          => \E r \in Reqs : Merges(r) /\ wk[r].instanceRow.link = old.link]_vars
  /\ [](\A row \in store : row.lastFetchedAt < now)

\* C25 witness: two refreshes of one link both merged, their documents carry
\* different userCounts, and the row holds the userCount of the one document
\* together with a field only the other supplies, stamped with the time of the
\* last merge.
C25_Witness ==
  \E a, b \in Workers :
    /\ wk[a].instanceRow.link = wk[b].instanceRow.link
    /\ wk[a].pc = "done" /\ wk[a].outcome.ok /\ wk[a].rowCount = 1
    /\ wk[b].pc = "done" /\ wk[b].outcome.ok /\ wk[b].rowCount = 1
    /\ wk[a].data.fields["userCount"] = "7" /\ wk[b].data.fields["userCount"] = "8"
    /\ \E row \in RowsWithLink(wk[a].instanceRow.link) :
         /\ row.userCount = "7"
         /\ row.region = wk[b].data.fields["region"]
         /\ row.lastFetchedAt = now - 1

\* C26 (as claimed): a worker never ends in an uncaught exception; whatever
\* the probe returned, once the worker has stopped it holds an outcome: ok, or
\* a failure with a reason.
C26_WorkerReturnsOutcome ==
  \A r \in Workers :
    /\ wk[r].pc # "threw"
    /\ wk[r].pc = "done" => (wk[r].outcome.ok \/ wk[r].outcome.reason # "")

\* C26 failing input: the instance answered 200 with the JSON document null,
\* and the worker ended in a TypeError without an outcome.
C26_Reached ==
  \E r \in Workers :
    /\ wk[r].pc = "threw"
    /\ wk[r].doc.kind = "null"
    /\ wk[r].outcome = NoOutcome

\* C27 (as claimed): no registration is left without a response by an
\* exception raised during normalization, and every response of a
\* registration has status 201, 400, 409 or 500.
C27_RegistrationAnswered ==
  \A r \in Registrations :
    /\ req[r].pc = "threw" => req[r].status # NoStatus
    /\ req[r].status \in {NoStatus, 201, 400, 409, 500}

\* C27 failing input: the body {"name", "link", "websocketLink", "region",
\* "imageUrl", "userCount"} without a details member ended the handler in a
\* TypeError, and no response was sent.
C27_Reached ==
  \E r \in Registrations :
    /\ req[r].pc = "threw" /\ req[r].status = NoStatus
    /\ req[r].body.kind = "object" /\ ~req[r].body.hasDetails

\* C28: lastFetchedAt over a row's lifetime.  From one state to the next a
\* row's lastFetchedAt never decreases, and it changes only in a step that is
\* the successful merge of a worker for the row's link; and a status query
\* answers with the stored row, so that after a refresh that failed it
\* reports the lastFetchedAt the row had before.
C28_LastFetchedMonotone ==
  /\ [][\A old \in store : \A row \in store' :
          row.id = old.id
          => /\ row.lastFetchedAt >= old.lastFetchedAt
             /\ row.lastFetchedAt # old.lastFetchedAt
                => \E r \in Reqs : /\ Merges(r)
                                   /\ wk[r].instanceRow.link = row.link
                                   /\ row.lastFetchedAt = now]_vars
  /\ [][\A r \in Reqs :
          (Executes("status", r) /\ req'[r].status = 200)
          => \E row \in RowsWithLink(req[r].link) : req'[r].list = <<row>>]_vars

\* C28 witness: the refresh of a link failed on its probe, and the status
\* query for the link that came after the trigger reports the lastFetchedAt
\* that the trigger had read.
C28_Witness ==
  /\ req[1].kind = "refresh" /\ req[1].status = 202
  /\ wk[1].pc = "done" /\ ~wk[1].outcome.ok /\ wk[1].cause.ev = "abort"
  /\ req[2].kind = "status" /\ req[2].status = 200 /\ req[2].link = req[1].link
  /\ req[2].list[1].lastFetchedAt = wk[1].instanceRow.lastFetchedAt
  /\ req[2].list[1].lastFetchedAt # NoTime

====
